---- MODULE Spec2Model ----
(***************************************************************************)
(* Adverse-event severity resolution service (src/ime2/ime2.py).           *)
(*                                                                         *)
(* Python strings are TLA+ strings; str.lower, str.strip, `in` and         *)
(* str.split are computed character by character.  Values decoded from an  *)
(* oracle reply are tagged records (JStr, JNum, JNull, JList, JObj) so     *)
(* that the type-dependent behaviour of the Python code (truthiness,       *)
(* AttributeError on a missing method) is part of the model.               *)
(***************************************************************************)
EXTENDS Integers, Sequences, FiniteSets, TLC

VARIABLES
    csv,            \* the three corpus source files as found at process start
    server,         \* "serving" once the module-level load succeeded, else "crashed"
    medically_significant_terms,
    significant_disability_terms,
    congenital_anomaly_terms,
    event,          \* SpecResolve: the event under resolution in analyze_text's loop
    resolved,       \* SpecResolve: outcome of the loop body for `event`
    prev,           \* SpecResolveTwice: the preceding (event, resolved) pair
    adverse_events, \* SpecDedup: the list under "Adverse_Events" of a parsed reply
    events,         \* SpecDedup: what the deduplication loop returns for it
    pc,             \* Spec: where the request in progress stands
    request,        \* Spec: the request being served
    diag_attempts,  \* Spec: attempts made by call_diagnostic_ollama for it
    event_attempts, \* Spec: attempts made by call_ollama for it
    diagnosed_condition, \* Spec: what call_diagnostic_ollama returned
    response_text,  \* Spec: what call_ollama returned
    attempt_outcome, \* Spec: what the latest requests.post of the request gave
    result,         \* Spec: what extract_medical_information returned or raised
    response,       \* Spec: the response sent
    handlers,       \* SpecConcurrent: the calls of analyze_text under way, one per worker
    parsing         \* SpecParse: the call of safe_json_loads under way

corpusVars == <<csv, server, medically_significant_terms,
                significant_disability_terms, congenital_anomaly_terms>>
resolveVars == <<event, resolved, prev>>
dedupVars == <<adverse_events, events>>
pipeVars == <<pc, request, diag_attempts, event_attempts, diagnosed_condition,
              response_text, attempt_outcome, result, response>>
handlerVars == <<handlers>>
parseVars == <<parsing>>
vars == <<corpusVars, resolveVars, dedupVars, pipeVars, handlerVars, parseVars>>

---------------------------------------------------------------------------
(* Python str operations *)

\* str.lower() on one character
LowerMap ==
    [A |-> "a", B |-> "b", C |-> "c", D |-> "d", E |-> "e", F |-> "f", G |-> "g",
     H |-> "h", I |-> "i", J |-> "j", K |-> "k", L |-> "l", M |-> "m", N |-> "n",
     O |-> "o", P |-> "p", Q |-> "q", R |-> "r", S |-> "s", T |-> "t", U |-> "u",
     V |-> "v", W |-> "w", X |-> "x", Y |-> "y", Z |-> "z"]

CharLower(c) == IF c \in DOMAIN LowerMap THEN LowerMap[c] ELSE c

RECURSIVE str_lower(_)
str_lower(s) ==
    IF s = "" THEN ""
    ELSE CharLower(SubSeq(s, 1, 1)) \o str_lower(SubSeq(s, 2, Len(s)))

IsSpace(c) == c \in {" ", "\t", "\n"}

RECURSIVE str_lstrip(_)
str_lstrip(s) ==
    IF s # "" /\ IsSpace(SubSeq(s, 1, 1)) THEN str_lstrip(SubSeq(s, 2, Len(s))) ELSE s

RECURSIVE str_rstrip(_)
str_rstrip(s) ==
    IF s # "" /\ IsSpace(SubSeq(s, Len(s), Len(s)))
    THEN str_rstrip(SubSeq(s, 1, Len(s) - 1)) ELSE s

str_strip(s) == str_rstrip(str_lstrip(s))

\* Python `sub in s`
str_contains(s, sub) ==
    \E i \in 1..(Len(s) - Len(sub) + 1) : SubSeq(s, i, i + Len(sub) - 1) = sub

RECURSIVE str_split(_, _)
str_split(s, sep) ==
    IF ~str_contains(s, sep) THEN <<s>>
    ELSE LET i == CHOOSE j \in 1..Len(s) :
                     /\ SubSeq(s, j, j) = sep
                     /\ \A k \in 1..(j - 1) : SubSeq(s, k, k) # sep
         IN  <<SubSeq(s, 1, i - 1)>> \o str_split(SubSeq(s, i + 1, Len(s)), sep)

---------------------------------------------------------------------------
(* Values decoded from JSON / Python literals *)

JStr(s)  == [t |-> "str", s |-> s]
JNum(n)  == [t |-> "num", n |-> n]
JNull    == [t |-> "null"]
JList(x) == [t |-> "list", xs |-> x]
JObj(f)  == [t |-> "obj", f |-> f]

IsStr(v) == v.t = "str"

\* an exception leaving the code under way, with str(e)
RaiseMsg(exc, msg) == [kind |-> "raise", exc |-> exc, msg |-> msg]
Raise(exc) == RaiseMsg(exc, "")

\* Python truthiness of a decoded value
Truthy(v) ==
    CASE v.t = "str"  -> v.s # ""
      [] v.t = "num"  -> v.n # 0
      [] v.t = "null" -> FALSE
      [] v.t = "list" -> v.xs # <<>>
      [] v.t = "obj"  -> DOMAIN v.f # {}

---------------------------------------------------------------------------
(* Severity vocabulary *)

FATAL == "Fatal or death"
LIFE_THREATENING == "Life threatening"
HOSPITALIZATION == "Inpatient hospitalization or prolongation of hospitalization"
CONGENITAL_ANOMALY == "Congenital anomaly or birth defect"
SIGNIFICANT_DISABILITY == "Significant disability or incapacity"
MEDICALLY_SIGNIFICANT == "Medically significant"
NONE_OF_THE_ABOVE == "None of the above"
TO_BE_DETERMINED == "To be determined"

severity_priority ==
    << FATAL, LIFE_THREATENING, HOSPITALIZATION, CONGENITAL_ANOMALY,
       SIGNIFICANT_DISABILITY, MEDICALLY_SIGNIFICANT, NONE_OF_THE_ABOVE >>

---------------------------------------------------------------------------
(* Corpus load *)

MissingFile    == [kind |-> "missing"]
UnreadableFile == [kind |-> "unreadable"]
CsvFile(rows)  == [kind |-> "ok", rows |-> rows]

\* load_terms: first column, lowercased and trimmed; FileNotFoundError gives set()
load_terms(file) ==
    IF file.kind = "missing" THEN {}
    ELSE { str_strip(str_lower(file.rows[i])) : i \in 1..Len(file.rows) }

\* variant: a missing file treated like any other read failure
load_raises_AnyFailure(file) == file.kind # "ok"

\* load_terms raises anything other than FileNotFoundError to the caller
load_raises(file) == file.kind = "unreadable"

load_ae_terms_from_csv(files) ==
    IF load_raises(files.ms) \/ load_raises(files.sd) \/ load_raises(files.ca)
    THEN [ok |-> FALSE]
    ELSE [ok |-> TRUE,
          ms |-> load_terms(files.ms),
          sd |-> load_terms(files.sd),
          ca |-> load_terms(files.ca)]

---------------------------------------------------------------------------
(* Severity resolution *)

NoMatch == "<None>"

\* variant: the tiers tested in the order MedicallySignificant first
check_csv_severity_MsFirst(ae_term, ms, sd, ca) ==
    LET ae_term_lower == str_strip(str_lower(ae_term))
    IN  IF \E term \in ms : str_contains(ae_term_lower, term)
        THEN MEDICALLY_SIGNIFICANT
        ELSE IF \E term \in ca : str_contains(ae_term_lower, term)
        THEN CONGENITAL_ANOMALY
        ELSE IF \E term \in sd : str_contains(ae_term_lower, term)
        THEN SIGNIFICANT_DISABILITY
        ELSE NoMatch

\* variant: containment tested the other way round (the term inside the entry)
check_csv_severity_TermInEntry(ae_term, ms, sd, ca) ==
    LET ae_term_lower == str_strip(str_lower(ae_term))
    IN  IF \E term \in sd : str_contains(term, ae_term_lower)
        THEN SIGNIFICANT_DISABILITY
        ELSE IF \E term \in ca : str_contains(term, ae_term_lower)
        THEN CONGENITAL_ANOMALY
        ELSE IF \E term \in ms : str_contains(term, ae_term_lower)
        THEN MEDICALLY_SIGNIFICANT
        ELSE NoMatch

check_csv_severity(ae_term, ms, sd, ca) ==
    LET ae_term_lower == str_strip(str_lower(ae_term))
    IN  IF \E term \in sd : str_contains(ae_term_lower, term)
        THEN SIGNIFICANT_DISABILITY
        ELSE IF \E term \in ca : str_contains(ae_term_lower, term)
        THEN CONGENITAL_ANOMALY
        ELSE IF \E term \in ms : str_contains(ae_term_lower, term)
        THEN MEDICALLY_SIGNIFICANT
        ELSE NoMatch

fatal_keywords ==
    {"death", "fatal", "mortality", "died", "passed away", "deceased", "expired", "demise"}
life_threatening_keywords ==
    {"life-threatening", "ventilator", "emergency intervention", "critical condition",
     "near death", "almost died", "intensive care"}
hospitalization_keywords ==
    {"hospitalization", "hospital", "admitted", "admission", "emergency room", "ER visit"}

\* variant: the Hospitalization list tested before the Fatal and the
\* Life-threatening ones
severity_rules_HospitalizationFirst(ms, sd, ca) ==
    << [keywords |-> hospitalization_keywords,  severity |-> HOSPITALIZATION],
       [keywords |-> fatal_keywords,            severity |-> FATAL],
       [keywords |-> life_threatening_keywords, severity |-> LIFE_THREATENING],
       [keywords |-> sd,                        severity |-> SIGNIFICANT_DISABILITY],
       [keywords |-> ca,                        severity |-> CONGENITAL_ANOMALY],
       [keywords |-> ms,                        severity |-> MEDICALLY_SIGNIFICANT] >>

severity_rules(ms, sd, ca) ==
    << [keywords |-> fatal_keywords,            severity |-> FATAL],
       [keywords |-> life_threatening_keywords, severity |-> LIFE_THREATENING],
       [keywords |-> hospitalization_keywords,  severity |-> HOSPITALIZATION],
       [keywords |-> sd,                        severity |-> SIGNIFICANT_DISABILITY],
       [keywords |-> ca,                        severity |-> CONGENITAL_ANOMALY],
       [keywords |-> ms,                        severity |-> MEDICALLY_SIGNIFICANT] >>

\* variant: the final `return "None of the above"` forgotten, the placeholder stays
determine_adr_severity_for_diagnosed_NoDefault(ae_term, ms, sd, ca) ==
    LET ae_term_lower == str_strip(str_lower(ae_term))
        rules == severity_rules(ms, sd, ca)
        hit(i) == \E keyword \in rules[i].keywords : str_contains(ae_term_lower, keyword)
    IN  IF \E i \in 1..Len(rules) : hit(i)
        THEN rules[CHOOSE i \in 1..Len(rules) : hit(i) /\ \A j \in 1..(i - 1) : ~hit(j)].severity
        ELSE TO_BE_DETERMINED

determine_adr_severity_for_diagnosed(ae_term, ms, sd, ca) ==
    LET ae_term_lower == str_strip(str_lower(ae_term))
        rules == severity_rules(ms, sd, ca)
        hit(i) == \E keyword \in rules[i].keywords : str_contains(ae_term_lower, keyword)
    IN  IF \E i \in 1..Len(rules) : hit(i)
        THEN rules[CHOOSE i \in 1..Len(rules) : hit(i) /\ \A j \in 1..(i - 1) : ~hit(j)].severity
        ELSE NONE_OF_THE_ABOVE

\* `not ai_severity or ai_severity.strip() == "" or ai_severity == "To be determined"`
\* evaluated left to right; .strip() on a truthy non-string raises AttributeError
IsPlaceholder(ai_severity) ==
    \/ ~Truthy(ai_severity)
    \/ /\ IsStr(ai_severity)
       /\ \/ str_strip(ai_severity.s) = ""
          \/ ai_severity.s = TO_BE_DETERMINED

PlaceholderTestRaises(ai_severity) == Truthy(ai_severity) /\ ~IsStr(ai_severity)

\* variant: the keyword routine applied without looking at Is_Diagnosis
ProvisionalSeverity_KeywordsAlways(ev, ae_term, ms, sd, ca) ==
    IF IsPlaceholder(ev.Severity)
    THEN determine_adr_severity_for_diagnosed(ae_term, ms, sd, ca)
    ELSE ev.Severity.s

\* ai_severity after the placeholder branch of the loop body
ProvisionalSeverity(ev, ae_term, ms, sd, ca) ==
    IF IsPlaceholder(ev.Severity)
    THEN IF ev.Is_Diagnosis
         THEN determine_adr_severity_for_diagnosed(ae_term, ms, sd, ca)
         ELSE NONE_OF_THE_ABOVE
    ELSE ev.Severity.s

Seriousness(final_severity) ==
    IF \E k \in 1..(Len(severity_priority) - 1) : severity_priority[k] = final_severity
    THEN "Serious" ELSE "Non-Serious"

\* variant: the corpus result used only when the oracle gave nothing
ResolveEvent_OracleFirst(ev, ms, sd, ca) ==
    LET ae_term == str_strip(ev.Term)
    IN  IF ae_term = "" THEN [kind |-> "skip"]
        ELSE IF PlaceholderTestRaises(ev.Severity)
        THEN Raise("AttributeError")
        ELSE LET ai_severity == ProvisionalSeverity(ev, ae_term, ms, sd, ca)
                 csv_severity == check_csv_severity(ae_term, ms, sd, ca)
                 final_severity == IF csv_severity # NoMatch /\ ai_severity = NONE_OF_THE_ABOVE
                                   THEN csv_severity
                                   ELSE ai_severity
             IN  [kind |-> "ok",
                  term |-> ae_term,
                  severity |-> final_severity,
                  seriousness |-> Seriousness(final_severity)]

\* variant: for a diagnosis event the severity of
\* determine_adr_severity_for_diagnosed kept, the corpus result not applied again
ResolveEvent_DiagnosisKeepsKeyword(ev, ms, sd, ca) ==
    LET ae_term == str_strip(ev.Term)
    IN  IF ae_term = "" THEN [kind |-> "skip"]
        ELSE IF PlaceholderTestRaises(ev.Severity)
        THEN Raise("AttributeError")
        ELSE LET ai_severity == ProvisionalSeverity(ev, ae_term, ms, sd, ca)
                 csv_severity == check_csv_severity(ae_term, ms, sd, ca)
                 final_severity == IF csv_severity # NoMatch /\ ~ev.Is_Diagnosis
                                   THEN csv_severity
                                   ELSE ai_severity
             IN  [kind |-> "ok",
                  term |-> ae_term,
                  severity |-> final_severity,
                  seriousness |-> Seriousness(final_severity)]

\* One iteration of the loop of analyze_text over an event built by
\* extract_medical_information ([Term: str, Severity: value, Is_Diagnosis: bool])
ResolveEvent(ev, ms, sd, ca) ==
    LET ae_term == str_strip(ev.Term)
    IN  IF ae_term = "" THEN [kind |-> "skip"]
        ELSE IF PlaceholderTestRaises(ev.Severity)
        THEN Raise("AttributeError")
        ELSE LET ai_severity == ProvisionalSeverity(ev, ae_term, ms, sd, ca)
                 csv_severity == check_csv_severity(ae_term, ms, sd, ca)
                 final_severity == IF csv_severity # NoMatch THEN csv_severity
                                   ELSE ai_severity
             IN  [kind |-> "ok",
                  term |-> ae_term,
                  severity |-> final_severity,
                  seriousness |-> Seriousness(final_severity)]

---------------------------------------------------------------------------
(* Corpus sources found at process start, and the module-level load *)

SD_FILES == { MissingFile,
              CsvFile(<<"Paralysis ">>),
              CsvFile(<<"paralysis", "hepatitis">>) }
CA_FILES == { MissingFile,
              CsvFile(<<" Cleft Palate">>) }
MS_FILES == { MissingFile,
              CsvFile(<<"Hepatitis", "seizure">>),
              UnreadableFile }

\* module-level load: the three global sets, or the process dies on the re-raise
InitCorpus ==
    /\ csv \in [ms : MS_FILES, sd : SD_FILES, ca : CA_FILES]
    /\ LET loaded == load_ae_terms_from_csv(csv)
       IN  /\ server = IF loaded.ok THEN "serving" ELSE "crashed"
           /\ medically_significant_terms  = IF loaded.ok THEN loaded.ms ELSE {}
           /\ significant_disability_terms = IF loaded.ok THEN loaded.sd ELSE {}
           /\ congenital_anomaly_terms     = IF loaded.ok THEN loaded.ca ELSE {}

---------------------------------------------------------------------------
(* SpecResolve: the loop body of analyze_text applied to one event *)

NoEvent  == [none |-> TRUE]
NoResult == [kind |-> "none"]

TermPool ==
    { "drug-induced hepatitis", "Hepatitis", "hepat", "Paralysis and hepatitis",
      "hepatitis with cleft palate", "cardiac arrest", "sudden Death",
      "fatal arrhythmia", "ER visit", "died in hospital",
      "intensive care admission", "acute seizure", " nausea ", " ",
      "fatal hepatitis", "Paralysis after hospital admission",
      "seizure on ventilator" }

SeverityPool ==
    { JStr(""), JStr(" "), JStr(TO_BE_DETERMINED), JStr(NONE_OF_THE_ABOVE),
      JStr(FATAL), JStr(LIFE_THREATENING), JStr(HOSPITALIZATION),
      JStr(MEDICALLY_SIGNIFICANT), JStr("Hospitalization"),
      JNull, JNum(0), JNum(3) }

\* events as extract_medical_information builds them
DiagnosisEvent(term) ==
    [Term |-> term, Severity |-> JStr(TO_BE_DETERMINED), Is_Diagnosis |-> TRUE]
OracleEvent(term, sev) ==
    [Term |-> term, Severity |-> sev, Is_Diagnosis |-> FALSE]

Candidates ==
    { DiagnosisEvent(t) : t \in TermPool }
        \cup { OracleEvent(t, s) : t \in TermPool, s \in SeverityPool }

\* no request under way
PipelineIdle ==
    /\ pc = "idle"
    /\ request = NoEvent
    /\ diag_attempts = 0
    /\ event_attempts = 0
    /\ diagnosed_condition = NoEvent
    /\ response_text = <<>>
    /\ attempt_outcome = NoEvent
    /\ result = NoResult
    /\ response = NoResult
    /\ handlers = NoEvent
    /\ parsing = NoEvent

InitResolve ==
    /\ InitCorpus
    /\ event \in Candidates
    /\ resolved = NoResult
    /\ prev = NoEvent
    /\ adverse_events = <<>>
    /\ events = NoResult
    /\ PipelineIdle

Resolve ==
    /\ server = "serving"
    /\ resolved = NoResult
    /\ resolved' = ResolveEvent(event, medically_significant_terms,
                                significant_disability_terms, congenital_anomaly_terms)
    /\ UNCHANGED <<corpusVars, event, prev, dedupVars, pipeVars, handlerVars, parseVars>>

NextResolve == Resolve

SpecResolve == InitResolve /\ [][NextResolve]_vars

---------------------------------------------------------------------------
(* SpecResolveTwice: a second event carrying the same term is resolved against
   the same, unchanged corpus *)

ResolveAgain(ev) ==
    /\ server = "serving"
    /\ resolved # NoResult
    /\ prev = NoEvent
    /\ ev.Term = event.Term
    /\ prev' = [event |-> event, resolved |-> resolved]
    /\ event' = ev
    /\ resolved' = ResolveEvent(ev, medically_significant_terms,
                                significant_disability_terms, congenital_anomaly_terms)
    /\ UNCHANGED <<corpusVars, dedupVars, pipeVars, handlerVars, parseVars>>

NextResolveTwice ==
    \/ Resolve
    \/ \E ev \in Candidates : ResolveAgain(ev)

SpecResolveTwice == InitResolve /\ [][NextResolveTwice]_vars

---------------------------------------------------------------------------
(* Deduplication loop of extract_medical_information *)

MaxEvents == 5

\* dict.get(key, default) on a decoded object
DictGet(obj, key, default) == IF key \in DOMAIN obj.f THEN obj.f[key] ELSE default

\* variant: the duplicate check made on the term as written, not on its lowercase
RECURSIVE DedupLoop_CaseSensitive(_, _, _, _)
DedupLoop_CaseSensitive(xs, i, acc, seen_terms) ==
    IF i > Len(xs) THEN [kind |-> "ok", events |-> acc]
    ELSE IF xs[i].t # "obj" THEN Raise("AttributeError")
    ELSE IF DictGet(xs[i], "Term", JStr("")).t # "str" THEN Raise("AttributeError")
    ELSE LET event_term == str_strip(DictGet(xs[i], "Term", JStr("")).s)
             event_severity == DictGet(xs[i], "Severity", JStr(NONE_OF_THE_ABOVE))
         IN  IF event_term = "" \/ event_term \in seen_terms
             THEN DedupLoop_CaseSensitive(xs, i + 1, acc, seen_terms)
             ELSE DedupLoop_CaseSensitive(xs, i + 1,
                                          Append(acc, OracleEvent(event_term, event_severity)),
                                          seen_terms \cup {event_term})

\* variant: the `if not event_term: continue` of lines 314-315 left out
RECURSIVE DedupLoop_KeepEmpty(_, _, _, _)
DedupLoop_KeepEmpty(xs, i, acc, seen_terms) ==
    IF i > Len(xs) THEN [kind |-> "ok", events |-> acc]
    ELSE IF xs[i].t # "obj" THEN Raise("AttributeError")
    ELSE IF DictGet(xs[i], "Term", JStr("")).t # "str" THEN Raise("AttributeError")
    ELSE LET event_term == str_strip(DictGet(xs[i], "Term", JStr("")).s)
             event_severity == DictGet(xs[i], "Severity", JStr(NONE_OF_THE_ABOVE))
             term_lower == str_strip(str_lower(event_term))
         IN  IF term_lower \in seen_terms
             THEN DedupLoop_KeepEmpty(xs, i + 1, acc, seen_terms)
             ELSE DedupLoop_KeepEmpty(xs, i + 1,
                                      Append(acc, OracleEvent(event_term, event_severity)),
                                      seen_terms \cup {term_lower})

\* the for loop over extracted_info["Adverse_Events"], from element i on
RECURSIVE DedupLoop(_, _, _, _)
DedupLoop(xs, i, acc, seen_terms) ==
    IF i > Len(xs) THEN [kind |-> "ok", events |-> acc]
    ELSE IF xs[i].t # "obj" THEN Raise("AttributeError")
    ELSE IF DictGet(xs[i], "Term", JStr("")).t # "str" THEN Raise("AttributeError")
    ELSE LET event_term == str_strip(DictGet(xs[i], "Term", JStr("")).s)
             event_severity == DictGet(xs[i], "Severity", JStr(NONE_OF_THE_ABOVE))
             term_lower == str_strip(str_lower(event_term))
         IN  IF event_term = "" \/ term_lower \in seen_terms
             THEN DedupLoop(xs, i + 1, acc, seen_terms)
             ELSE DedupLoop(xs, i + 1,
                            Append(acc, OracleEvent(event_term, event_severity)),
                            seen_terms \cup {term_lower})

\* list[:n]
Take(xs, n) == SubSeq(xs, 1, IF Len(xs) < n THEN Len(xs) ELSE n)

\* lines 307-330: the loop, then events[:5]
Deduplicate(xs) ==
    LET r == DedupLoop(xs, 1, <<>>, {})
    IN  IF r.kind = "ok" THEN [kind |-> "ok", events |-> Take(r.events, MaxEvents)] ELSE r

---------------------------------------------------------------------------
(* Oracle reply texts and safe_json_loads.

   A reply text is a sequence of segments: whitespace, a code-fence marker
   (``` or ```json), prose (text without braces that is neither JSON nor a
   Python expression), the JSON serialisation of a value, or the Python
   literal serialisation of a value (single-quoted strings: no JSON, but
   accepted by eval), or a Python expression that is no literal: eval runs
   it in the globals of the module, where it can call a method of a corpus
   set, and takes its value. *)

WsSeg       == [seg |-> "ws"]
FenceSeg    == [seg |-> "fence"]
ProseSeg    == [seg |-> "prose"]
JsonSeg(v)  == [seg |-> "json", val |-> v]
PyLitSeg(v) == [seg |-> "pylit", val |-> v]
PyExprSeg(effect, v) == [seg |-> "pyexpr", effect |-> effect, val |-> v]

ParseOk(v) == [ok |-> TRUE, val |-> v]
ParseFail  == [ok |-> FALSE]

\* text.strip()
RECURSIVE text_lstrip(_)
text_lstrip(t) ==
    IF t # <<>> /\ Head(t).seg = "ws" THEN text_lstrip(Tail(t)) ELSE t

RECURSIVE text_rstrip(_)
text_rstrip(t) ==
    IF t # <<>> /\ t[Len(t)].seg = "ws" THEN text_rstrip(SubSeq(t, 1, Len(t) - 1)) ELSE t

text_strip(t) == text_rstrip(text_lstrip(t))

\* re.sub(r'```(json)?|```', '', text)
remove_fences(t) == SelectSeq(t, LAMBDA g : g.seg # "fence")

RECURSIVE ContainsObject(_)
ContainsObject(v) ==
    \/ v.t = "obj"
    \/ v.t = "list" /\ \E i \in 1..Len(v.xs) : ContainsObject(v.xs[i])

RECURSIVE ContainsNull(_)
ContainsNull(v) ==
    \/ v.t = "null"
    \/ v.t = "list" /\ \E i \in 1..Len(v.xs) : ContainsNull(v.xs[i])
    \/ v.t = "obj" /\ \E k \in DOMAIN v.f : ContainsNull(v.f[k])

\* json.loads of the span from the first '{' to the last '}' of the JSON
\* serialisation of v
RECURSIVE BraceSpan(_)
BraceSpan(v) ==
    IF v.t = "obj" THEN ParseOk(v)
    ELSE IF v.t = "list"
              /\ Cardinality({ i \in 1..Len(v.xs) : ContainsObject(v.xs[i]) }) = 1
    THEN BraceSpan(v.xs[CHOOSE i \in 1..Len(v.xs) : ContainsObject(v.xs[i])])
    ELSE ParseFail

\* lambda t: json.loads(t)
strategy_json_loads(t) ==
    IF Len(t) = 1 /\ t[1].seg = "json" THEN ParseOk(t[1].val) ELSE ParseFail

\* lambda t: json.loads(re.search(r'\{.*\}', t, re.DOTALL).group(0))
strategy_regex(t) ==
    LET braced == { i \in 1..Len(t) :
                      t[i].seg \in {"json", "pylit"} /\ ContainsObject(t[i].val) }
    IN  IF Cardinality(braced) = 1
        THEN LET g == t[CHOOSE i \in braced : TRUE]
             IN  IF g.seg = "json" THEN BraceSpan(g.val) ELSE ParseFail
        ELSE ParseFail

\* lambda t: eval(t)
strategy_eval(t) ==
    IF Len(t) = 1 /\ t[1].seg \in {"pylit", "pyexpr"} THEN ParseOk(t[1].val)
    ELSE IF Len(t) = 1 /\ t[1].seg = "json" /\ ~ContainsNull(t[1].val)
    THEN ParseOk(t[1].val)
    ELSE ParseFail

CouldNotParse == "Could not parse JSON after trying multiple strategies"

\* what each strategy of the list gives for t, in the order of the list
parsing_strategies(t) ==
    << strategy_json_loads(t), strategy_regex(t), strategy_eval(t) >>

safe_json_loads(text) ==
    LET t == text_strip(remove_fences(text_strip(text)))
    IN  IF \E k \in 1..3 : parsing_strategies(t)[k].ok
        THEN parsing_strategies(t)[CHOOSE k \in 1..3 :
                 parsing_strategies(t)[k].ok /\ \A j \in 1..(k - 1) : ~parsing_strategies(t)[j].ok]
        ELSE ParseFail

\* what the eval of safe_json_loads(text) does to the module globals: the
\* calls on corpus sets made by the expression, when the third strategy is
\* reached
eval_effects(text) ==
    LET t == text_strip(remove_fences(text_strip(text)))
    IN  IF /\ ~strategy_json_loads(t).ok
           /\ ~strategy_regex(t).ok
           /\ Len(t) = 1
           /\ t[1].seg = "pyexpr"
        THEN << t[1].effect >>
        ELSE << >>

\* the corpus sets g = [ms, sd, ca] after the calls `effects`, each one
\* <set>.add(term)
RECURSIVE apply_effects(_, _)
apply_effects(effects, g) ==
    IF effects = << >> THEN g
    ELSE LET e == Head(effects)
         IN  apply_effects(Tail(effects), [g EXCEPT ![e.tier] = @ \cup {e.add}])

---------------------------------------------------------------------------
(* One attempt of an oracle call *)

\* variant: one more iteration of the retry loops
max_retries_OneMore == 3 + 1

max_retries == 3

TransportError == [kind |-> "transport_error"]
HttpReply(status, text) == [kind |-> "http", status |-> status, response |-> text]

\* the attempt got status 200 and a non-empty 'response'
AttemptHasText(outcome) ==
    outcome.kind = "http" /\ outcome.status = 200 /\ outcome.response # <<>>

\* call_diagnostic_ollama: what a 200 attempt with text returns
DiagnosedConditionOf(text) ==
    LET parsed == safe_json_loads(text)
    IN  IF parsed.ok /\ parsed.val.t = "obj"
        THEN DictGet(parsed.val, "Diagnosed_Condition", JStr(""))
        ELSE JStr("")

---------------------------------------------------------------------------
(* extract_medical_information and the response assembly of analyze_text *)

\* the test `diagnosed_condition and diagnosed_condition.strip()`
DiagnosisTest(v) ==
    IF ~Truthy(v) THEN "none"
    ELSE IF v.t # "str" THEN "raise"
    ELSE IF str_strip(v.s) = "" THEN "none"
    ELSE "found"

\* variant: the `if condition.strip()` filter of line 238 left out
DiagnosisEvents_KeepEmpty(s) ==
    IF str_contains(s, ",")
    THEN LET conditions == str_split(s, ",")
         IN  [i \in 1..Len(conditions) |-> DiagnosisEvent(str_strip(conditions[i]))]
    ELSE << DiagnosisEvent(str_strip(s)) >>

\* lines 236-250: the events built from a diagnosis string
DiagnosisEvents(s) ==
    IF str_contains(s, ",")
    THEN LET conditions == SelectSeq(str_split(s, ","), LAMBDA c : str_strip(c) # "")
         IN  [i \in 1..Len(conditions) |-> DiagnosisEvent(str_strip(conditions[i]))]
    ELSE << DiagnosisEvent(str_strip(s)) >>

\* variant: a reply that cannot be parsed or lacks 'Adverse_Events' read as an
\* empty list of events
ExtractEvents_BlankOnFailure(text) ==
    LET extracted_info == safe_json_loads(text)
    IN  IF ~extracted_info.ok THEN [kind |-> "ok", events |-> <<>>]
        ELSE IF extracted_info.val.t # "obj"
                  \/ "Adverse_Events" \notin DOMAIN extracted_info.val.f
        THEN [kind |-> "ok", events |-> <<>>]
        ELSE LET ae == extracted_info.val.f.Adverse_Events
             IN  CASE ae.t = "list" -> Deduplicate(ae.xs)
                   [] ae.t \in {"null", "num"} -> Raise("TypeError")
                   [] ae.t = "str" ->
                        IF ae.s = "" THEN [kind |-> "ok", events |-> <<>>]
                        ELSE Raise("AttributeError")
                   [] ae.t = "obj" ->
                        IF DOMAIN ae.f = {} THEN [kind |-> "ok", events |-> <<>>]
                        ELSE Raise("AttributeError")

\* lines 300-330: from the text call_ollama returned to the events, or the raise
ExtractEvents(text) ==
    LET extracted_info == safe_json_loads(text)
    IN  IF ~extracted_info.ok THEN RaiseMsg("ValueError", CouldNotParse)
        ELSE IF extracted_info.val.t # "obj"
                  \/ "Adverse_Events" \notin DOMAIN extracted_info.val.f
        THEN RaiseMsg("ValueError", "Invalid response format")
        ELSE LET ae == extracted_info.val.f.Adverse_Events
             IN  CASE ae.t = "list" -> Deduplicate(ae.xs)
                   [] ae.t \in {"null", "num"} -> Raise("TypeError")
                   [] ae.t = "str" ->
                        IF ae.s = "" THEN [kind |-> "ok", events |-> <<>>]
                        ELSE Raise("AttributeError")
                   [] ae.t = "obj" ->
                        IF DOMAIN ae.f = {} THEN [kind |-> "ok", events |-> <<>>]
                        ELSE Raise("AttributeError")

ResponseLimit == 5

\* 'Adverse_Event_Terms' for i = 1, f'Adverse_Event_Terms{i}' otherwise
FieldName(base, i) == IF i = 1 THEN base ELSE base \o ToString(i)

EmptyDict == [k \in {} |-> ""]

\* the loop `for i, event in enumerate(events, 1)` from position i on
RECURSIVE AssembleLoop(_, _, _, _, _, _)
AssembleLoop(evs, i, response_data, ms, sd, ca) ==
    IF i > Len(evs) THEN [kind |-> "ok", body |-> response_data]
    ELSE LET r == ResolveEvent(evs[i], ms, sd, ca)
         IN  IF r.kind = "raise" THEN r
             ELSE IF r.kind = "skip" THEN AssembleLoop(evs, i + 1, response_data, ms, sd, ca)
             ELSE AssembleLoop(evs, i + 1,
                      (FieldName("Adverse_Event_Terms", i) :> r.term)
                          @@ (FieldName("Side_Effect_Severity", i) :> r.severity)
                          @@ (FieldName("Side_Effect_Seriousness", i) :> r.seriousness)
                          @@ response_data,
                      ms, sd, ca)

\* variant: the records written in the reverse of the extractor's order
AssembleResponse_Reversed(evs, ms, sd, ca) ==
    LET limited == Take(evs, ResponseLimit)
    IN  AssembleLoop([i \in 1..Len(limited) |-> limited[Len(limited) + 1 - i]],
                     1, EmptyDict, ms, sd, ca)

\* variant: the [:5] of line 373 left out
AssembleResponse_NoLimit(evs, ms, sd, ca) ==
    AssembleLoop(evs, 1, EmptyDict, ms, sd, ca)

\* lines 361-420
AssembleResponse(evs, ms, sd, ca) ==
    AssembleLoop(Take(evs, ResponseLimit), 1, EmptyDict, ms, sd, ca)

\* variant: every exception answered as an internal error
ErrorResponse_AlwaysInternal(r) ==
    [status |-> 500, body |-> [error |-> "Internal server error"]]

\* the except clauses of analyze_text
ErrorResponse(r) ==
    IF r.exc = "ValueError" THEN [status |-> 400, body |-> [error |-> r.msg]]
    ELSE [status |-> 500, body |-> [error |-> "Internal server error"]]

\* the response for what extract_medical_information returned or raised
Respond(extracted, ms, sd, ca) ==
    IF extracted.kind = "raise" THEN ErrorResponse(extracted)
    ELSE LET a == AssembleResponse(extracted.events, ms, sd, ca)
         IN  IF a.kind = "raise" THEN ErrorResponse(a)
             ELSE [status |-> 200, body |-> a.body]

\* variant: the text tested without .strip()
ValidateRequest_NoStrip(req) ==
    IF ~req.is_json THEN "Request must be JSON"
    ELSE IF req.text = "" THEN "No text provided for analysis"
    ELSE ""

\* lines 348-355: the error message of a rejected request, "" when it passes
ValidateRequest(req) ==
    IF ~req.is_json THEN "Request must be JSON"
    ELSE IF str_strip(req.text) = "" THEN "No text provided for analysis"
    ELSE ""

---------------------------------------------------------------------------
(* SpecDedup: the deduplication applied to one decoded "Adverse_Events" list *)

MaxHeadLen == 4

Pair(term, sev) == JObj([Term |-> JStr(term), Severity |-> sev])

HeadEvents ==
    { Pair("Rash", JStr(FATAL)), Pair("rash ", JStr("")), Pair(" ", JStr(FATAL)),
      JObj([Severity |-> JStr(NONE_OF_THE_ABOVE)]),
      Pair("nausea", JStr(NONE_OF_THE_ABOVE)), Pair("Fever", JStr(LIFE_THREATENING)),
      JStr("rash") }

SeqsUpTo(S, n) == UNION { [1..k -> S] : k \in 0..n }

\* scripted continuations: none; seven terms with five distinct keys; seven
\* terms with seven distinct keys
ReplyTails ==
    { <<>>,
      << Pair("cough", JNull), Pair("Cough", JStr(FATAL)), Pair("itch", JStr("")),
         Pair("pain", JStr(HOSPITALIZATION)), Pair(" ITCH", JStr(FATAL)),
         Pair("dizziness", JStr(NONE_OF_THE_ABOVE)), Pair("Vomiting", JNum(0)) >>,
      << Pair("cough", JStr("")), Pair("itch", JStr("")), Pair("pain", JStr("")),
         Pair("dizziness", JStr("")), Pair("Vomiting", JStr(FATAL)),
         Pair("tremor", JStr("")), Pair("insomnia", JStr("")) >> }

InitDedup ==
    /\ InitCorpus
    /\ csv = [ms |-> MissingFile, sd |-> MissingFile, ca |-> MissingFile]
    /\ event = NoEvent
    /\ resolved = NoResult
    /\ prev = NoEvent
    /\ \E head \in SeqsUpTo(HeadEvents, MaxHeadLen), tail \in ReplyTails :
           adverse_events = head \o tail
    /\ events = NoResult
    /\ PipelineIdle

Dedup ==
    /\ events = NoResult
    /\ events' = Deduplicate(adverse_events)
    /\ UNCHANGED <<corpusVars, resolveVars, adverse_events, pipeVars, handlerVars, parseVars>>

NextDedup == Dedup

SpecDedup == InitDedup /\ [][NextDedup]_vars

---------------------------------------------------------------------------
(* Spec: the service handling requests, one oracle attempt per step *)

JsonText(v)  == << JsonSeg(v) >>
Fenced(v)    == << FenceSeg, WsSeg, JsonSeg(v), WsSeg, FenceSeg >>
WithProse(v) == << ProseSeg, WsSeg, JsonSeg(v), WsSeg >>
PyText(v)    == << PyLitSeg(v) >>

Requests ==
    { [is_json |-> FALSE, text |-> ""],
      [is_json |-> TRUE, text |-> ""],
      [is_json |-> TRUE, text |-> "  "],
      [is_json |-> TRUE,
       text |-> "Patient died after taking the drug due to cardiac arrest"] }

DiagObj(s) == JObj([Diagnosed_Condition |-> JStr(s)])

DiagReplies ==
    { JsonText(DiagObj("")),
      JsonText(DiagObj(" ")),
      JsonText(DiagObj("drug-induced hepatitis, acute kidney injury")),
      JsonText(DiagObj("hepatitis, Hepatitis")),
      JsonText(DiagObj(",, ,")),
      JsonText(DiagObj("rash, fever, cough,, itch, pain, tremor")),
      JsonText(DiagObj("fatal arrhythmia")),
      JsonText(DiagObj(" Paralysis of the hand ")),
      JsonText(DiagObj("died in hospital, ER visit")),
      Fenced(DiagObj("intensive care admission")),
      WithProse(DiagObj("cleft palate with hepatitis")),
      PyText(DiagObj("acute seizure")),
      JsonText(JObj([Diagnosed_Condition |-> JNull])),
      JsonText(JObj([Diagnosed_Condition |-> JList(<<JStr("hepatitis")>>)])),
      JsonText(JObj(EmptyDict)),
      JsonText(JList(<<>>)),
      << ProseSeg >>,
      << WsSeg >> }

EventsObj(xs) == JObj([Adverse_Events |-> JList(xs)])

EventReplies ==
    { JsonText(EventsObj(<<>>)),
      JsonText(EventsObj(<< Pair("cardiac arrest", JStr("")) >>)),
      JsonText(EventsObj(<< Pair("chest pain", JStr("Hospitalization")) >>)),
      JsonText(EventsObj(<< Pair("nausea", JStr(NONE_OF_THE_ABOVE)),
                            Pair("Nausea ", JStr(FATAL)),
                            Pair("hepatitis", JStr(FATAL)),
                            Pair(" ", JStr(FATAL)),
                            Pair("seizure", JNull) >>)),
      JsonText(EventsObj(<< Pair("syncope", JStr(FATAL)),
                            Pair("coma", JStr(LIFE_THREATENING)),
                            Pair("pneumonia", JStr(HOSPITALIZATION)),
                            Pair("club foot", JStr(CONGENITAL_ANOMALY)),
                            Pair("deafness", JStr(SIGNIFICANT_DISABILITY)),
                            Pair("anaemia", JStr(MEDICALLY_SIGNIFICANT)) >>)),
      JsonText(EventsObj(<< Pair("cough", JStr("")), Pair("itch", JStr("")),
                            Pair("pain", JStr(TO_BE_DETERMINED)), Pair("dizziness", JStr("")),
                            Pair("Vomiting", JStr(FATAL)), Pair("tremor", JStr("")),
                            Pair("insomnia", JStr("")) >>)),
      JsonText(EventsObj(<< Pair("rash", JNum(3)) >>)),
      JsonText(EventsObj(<< JStr("rash") >>)),
      JsonText(EventsObj(<< JObj([Term |-> JNull]) >>)),
      JsonText(JObj([Adverse_Events |-> JNull])),
      JsonText(JObj(EmptyDict)),
      JsonText(JList(<<>>)),
      Fenced(EventsObj(<< Pair("paralysis", JStr("")) >>)),
      WithProse(EventsObj(<< Pair("headache", JStr("Severe")) >>)),
      PyText(EventsObj(<< Pair("fatigue", JStr(NONE_OF_THE_ABOVE)) >>)),
      << ProseSeg >> }

\* an attempt that yields no text: transport error, non-200 status, empty reply
FailedAttempts ==
    { TransportError, HttpReply(500, << ProseSeg >>), HttpReply(200, <<>>) }

DiagOutcomes  == FailedAttempts \cup { HttpReply(200, t) : t \in DiagReplies }
EventOutcomes == FailedAttempts \cup { HttpReply(200, t) : t \in EventReplies }

Init ==
    /\ InitCorpus
    /\ event = NoEvent
    /\ resolved = NoResult
    /\ prev = NoEvent
    /\ adverse_events = <<>>
    /\ events = NoResult
    /\ PipelineIdle

\* analyze_text up to the first oracle call
AnalyzeText(req) ==
    /\ server = "serving"
    /\ pc \in {"idle", "done"}
    /\ request' = req
    /\ diag_attempts' = 0
    /\ event_attempts' = 0
    /\ diagnosed_condition' = NoEvent
    /\ response_text' = <<>>
    /\ attempt_outcome' = NoEvent
    /\ result' = NoResult
    /\ IF ValidateRequest(req) # ""
       THEN /\ response' = [status |-> 400, body |-> [error |-> ValidateRequest(req)]]
            /\ pc' = "done"
       ELSE /\ response' = NoResult
            /\ pc' = "diagnosis"
    /\ UNCHANGED <<corpusVars, resolveVars, dedupVars, handlerVars, parseVars>>

\* variant: event extraction run whatever the diagnosis call returned
AfterDiagnosis_AlwaysExtract(dc) ==
    /\ diagnosed_condition' = dc
    /\ pc' = "events"
    /\ UNCHANGED <<result, response>>

\* extract_medical_information from the return of call_diagnostic_ollama on:
\* the diagnosis branch and the response, or on to the event extraction
AfterDiagnosis(dc) ==
    /\ diagnosed_condition' = dc
    /\ CASE DiagnosisTest(dc) = "raise" ->
                /\ result' = Raise("AttributeError")
                /\ response' = ErrorResponse(Raise("AttributeError"))
                /\ pc' = "done"
         [] DiagnosisTest(dc) = "found" ->
                /\ result' = [kind |-> "ok", events |-> DiagnosisEvents(dc.s)]
                /\ response' = Respond(result', medically_significant_terms,
                                       significant_disability_terms,
                                       congenital_anomaly_terms)
                /\ pc' = "done"
         [] DiagnosisTest(dc) = "none" ->
                /\ pc' = "events"
                /\ UNCHANGED <<result, response>>

\* variant: a reply that cannot be parsed is treated like an attempt without text
DiagnosisAttempt_RetryOnParseFailure(outcome) ==
    /\ pc = "diagnosis"
    /\ diag_attempts' = diag_attempts + 1
    /\ attempt_outcome' = outcome
    /\ IF AttemptHasText(outcome) /\ safe_json_loads(outcome.response).ok
       THEN AfterDiagnosis(DiagnosedConditionOf(outcome.response))
       ELSE IF diag_attempts + 1 < max_retries
       THEN UNCHANGED <<pc, diagnosed_condition, result, response>>
       ELSE AfterDiagnosis(JStr(""))
    /\ UNCHANGED <<corpusVars, resolveVars, dedupVars, handlerVars, parseVars, request,
                   event_attempts, response_text>>

\* one iteration of the retry loop of call_diagnostic_ollama
DiagnosisAttempt(outcome) ==
    /\ pc = "diagnosis"
    /\ diag_attempts' = diag_attempts + 1
    /\ attempt_outcome' = outcome
    /\ IF AttemptHasText(outcome)
       THEN AfterDiagnosis(DiagnosedConditionOf(outcome.response))
       ELSE IF diag_attempts + 1 < max_retries
       THEN UNCHANGED <<pc, diagnosed_condition, result, response>>
       ELSE AfterDiagnosis(JStr(""))
    /\ UNCHANGED <<corpusVars, resolveVars, dedupVars, handlerVars, parseVars, request,
                   event_attempts, response_text>>

OllamaFailed == "Failed to get response from Ollama after multiple attempts"

\* one iteration of the retry loop of call_ollama, and what follows its return
EventAttempt(outcome) ==
    /\ pc = "events"
    /\ event_attempts' = event_attempts + 1
    /\ attempt_outcome' = outcome
    /\ IF AttemptHasText(outcome)
       THEN /\ response_text' = outcome.response
            /\ result' = ExtractEvents(outcome.response)
            /\ response' = Respond(result', medically_significant_terms,
                                   significant_disability_terms,
                                   congenital_anomaly_terms)
            /\ pc' = "done"
       ELSE IF event_attempts + 1 < max_retries
       THEN UNCHANGED <<pc, response_text, result, response>>
       ELSE /\ result' = RaiseMsg("Exception", OllamaFailed)
            /\ response' = ErrorResponse(result')
            /\ pc' = "done"
            /\ UNCHANGED response_text
    /\ UNCHANGED <<corpusVars, resolveVars, dedupVars, handlerVars, parseVars, request,
                   diag_attempts, diagnosed_condition>>

Next ==
    \/ \E req \in Requests : AnalyzeText(req)
    \/ \E outcome \in DiagOutcomes : DiagnosisAttempt(outcome)
    \/ \E outcome \in EventOutcomes : EventAttempt(outcome)

Spec == Init /\ [][Next]_vars

\* Spec with every started oracle attempt coming to its end: requests.post is
\* called with a timeout (lines 72 and 142), so it returns or raises
LiveSpec ==
    /\ Spec
    /\ WF_vars(\E outcome \in DiagOutcomes : DiagnosisAttempt(outcome))
    /\ WF_vars(\E outcome \in EventOutcomes : EventAttempt(outcome))

---------------------------------------------------------------------------
(* SpecParse: one call of safe_json_loads (ime2.py:30-51), one strategy of
   the list per step. *)

ParseValues ==
    { DiagObj("hepatitis"),
      EventsObj(<< Pair("rash", JStr(FATAL)) >>),
      JObj([Adverse_Events |-> JNull]),
      JList(<< DiagObj("hepatitis") >>),
      JList(<< DiagObj("hepatitis"), DiagObj("rash") >>),
      JList(<< JStr("rash") >>),
      JStr("rash"),
      JNull }

ParseTexts ==
    { <<>>, << WsSeg >>, << ProseSeg >>, << FenceSeg >> }
        \cup { JsonText(v) : v \in ParseValues }
        \cup { Fenced(v) : v \in ParseValues }
        \cup { WithProse(v) : v \in ParseValues }
        \cup { PyText(v) : v \in ParseValues }
        \cup { << WsSeg, JsonSeg(v), WsSeg >> : v \in ParseValues }
        \cup { << FenceSeg, PyLitSeg(v), FenceSeg >> : v \in ParseValues }
        \cup { << ProseSeg, PyLitSeg(v) >> : v \in ParseValues }
        \cup { << JsonSeg(v), WsSeg, ProseSeg >> : v \in ParseValues }
        \cup { << PyExprSeg([tier |-> "ms", add |-> "nausea"], v) >> : v \in ParseValues }

InitParse ==
    /\ InitCorpus
    /\ csv = [ms |-> MissingFile, sd |-> MissingFile, ca |-> MissingFile]
    /\ event = NoEvent
    /\ resolved = NoResult
    /\ prev = NoEvent
    /\ adverse_events = <<>>
    /\ events = NoResult
    /\ pc = "idle"
    /\ request = NoEvent
    /\ diag_attempts = 0
    /\ event_attempts = 0
    /\ diagnosed_condition = NoEvent
    /\ response_text = <<>>
    /\ attempt_outcome = NoEvent
    /\ result = NoResult
    /\ response = NoResult
    /\ handlers = NoEvent
    /\ \E text \in ParseTexts :
           parsing = [text |-> text_strip(remove_fences(text_strip(text))),
                      tried |-> 0, returned |-> NoResult]

\* one iteration of `for strategy in parsing_strategies`, or the raise after
\* the loop (returned = ParseFail)
TryStrategy ==
    /\ parsing # NoEvent
    /\ parsing.returned = NoResult
    /\ IF parsing.tried < 3
       THEN LET got == parsing_strategies(parsing.text)[parsing.tried + 1]
            IN  parsing' = [parsing EXCEPT
                               !.tried = @ + 1,
                               !.returned = IF got.ok THEN got ELSE NoResult]
       ELSE parsing' = [parsing EXCEPT !.returned = ParseFail]
    /\ LET g == apply_effects(IF parsing.tried = 2 THEN eval_effects(parsing.text) ELSE << >>,
                              [ms |-> medically_significant_terms,
                               sd |-> significant_disability_terms,
                               ca |-> congenital_anomaly_terms])
       IN  /\ medically_significant_terms' = g.ms
           /\ significant_disability_terms' = g.sd
           /\ congenital_anomaly_terms' = g.ca
    /\ UNCHANGED <<csv, server, resolveVars, dedupVars, pipeVars, handlerVars>>

NextParse == TryStrategy

SpecParse == InitParse /\ [][NextParse]_vars

---------------------------------------------------------------------------
(* SpecConcurrent: two calls of analyze_text served at the same time.
   Each worker runs analyze_text on its own local variables; the module-level
   corpus sets are the only data the two calls both reach.  handlers.log is
   the history of what each worker was handed: its request and the outcomes of
   its oracle attempts. *)

Workers == {1, 2}

\* where the local variables of worker h's call of analyze_text live
Frame(h) == h

\* the local variables of a call of analyze_text and of the functions it calls
FreshFrame(req) ==
    [request |-> req, diag_attempts |-> 0, event_attempts |-> 0,
     diagnosed_condition |-> NoEvent, response_text |-> <<>>,
     result |-> NoResult, response |-> NoResult]

\* analyze_text up to the first oracle call
StartStep(req) ==
    IF ValidateRequest(req) # ""
    THEN [pc |-> "done",
          frame |-> [FreshFrame(req) EXCEPT
                        !.response = [status |-> 400,
                                      body |-> [error |-> ValidateRequest(req)]]]]
    ELSE [pc |-> "diagnosis", frame |-> FreshFrame(req)]

\* extract_medical_information from the return of call_diagnostic_ollama on
AfterDiagnosisStep(fr, dc, ms, sd, ca) ==
    LET f == [fr EXCEPT !.diagnosed_condition = dc]
    IN  CASE DiagnosisTest(dc) = "raise" ->
                [pc |-> "done",
                 frame |-> [f EXCEPT !.result = Raise("AttributeError"),
                                     !.response = ErrorResponse(Raise("AttributeError"))]]
          [] DiagnosisTest(dc) = "found" ->
                LET r == [kind |-> "ok", events |-> DiagnosisEvents(dc.s)]
                IN  [pc |-> "done",
                     frame |-> [f EXCEPT !.result = r,
                                         !.response = Respond(r, ms, sd, ca)]]
          [] DiagnosisTest(dc) = "none" -> [pc |-> "events", frame |-> f]

\* one iteration of the retry loop of call_diagnostic_ollama
DiagnosisStep(fr, outcome, ms, sd, ca) ==
    LET f == [fr EXCEPT !.diag_attempts = fr.diag_attempts + 1]
    IN  IF AttemptHasText(outcome)
        THEN AfterDiagnosisStep(f, DiagnosedConditionOf(outcome.response), ms, sd, ca)
        ELSE IF f.diag_attempts < max_retries
        THEN [pc |-> "diagnosis", frame |-> f]
        ELSE AfterDiagnosisStep(f, JStr(""), ms, sd, ca)

\* one iteration of the retry loop of call_ollama, and what follows its return
EventStep(fr, outcome, ms, sd, ca) ==
    LET f == [fr EXCEPT !.event_attempts = fr.event_attempts + 1]
    IN  IF AttemptHasText(outcome)
        THEN LET r == ExtractEvents(outcome.response)
             IN  [pc |-> "done",
                  frame |-> [f EXCEPT !.response_text = outcome.response,
                                      !.result = r,
                                      !.response = Respond(r, ms, sd, ca)]]
        ELSE IF f.event_attempts < max_retries
        THEN [pc |-> "events", frame |-> f]
        ELSE LET r == RaiseMsg("Exception", OllamaFailed)
             IN  [pc |-> "done",
                  frame |-> [f EXCEPT !.result = r, !.response = ErrorResponse(r)]]

ConcurrentRequests ==
    { [is_json |-> TRUE, text |-> "  "],
      [is_json |-> TRUE, text |-> "Patient developed hepatitis after the drug"] }

ConcurrentDiagOutcomes ==
    { TransportError,
      HttpReply(200, JsonText(DiagObj(""))),
      HttpReply(200, JsonText(DiagObj("hepatitis, Paralysis, death"))) }

\* the last reply is the text
\*   medically_significant_terms.add('nausea') or {'Adverse_Events': [...]}
ConcurrentEventOutcomes ==
    { HttpReply(200, <<>>),
      HttpReply(200, << ProseSeg >>),
      HttpReply(200, JsonText(EventsObj(<< Pair("hepatitis", JStr(FATAL)),
                                           Pair("nausea", JStr("")) >>))),
      HttpReply(200, << PyExprSeg([tier |-> "ms", add |-> "nausea"],
                                  EventsObj(<< Pair("rash", JStr("")) >>)) >>) }

\* the module globals as a record
Globals ==
    [ms |-> medically_significant_terms,
     sd |-> significant_disability_terms,
     ca |-> congenital_anomaly_terms]

\* the module globals after safe_json_loads has been applied to the text of
\* the attempt, if it has one
GlobalsAfter(outcome, g) ==
    IF AttemptHasText(outcome) THEN apply_effects(eval_effects(outcome.response), g)
    ELSE g

NoLog == [request |-> NoEvent, diag |-> <<>>, events |-> <<>>]

InitConcurrent ==
    /\ InitCorpus
    /\ event = NoEvent
    /\ resolved = NoResult
    /\ prev = NoEvent
    /\ adverse_events = <<>>
    /\ events = NoResult
    /\ pc = "idle"
    /\ request = NoEvent
    /\ diag_attempts = 0
    /\ event_attempts = 0
    /\ diagnosed_condition = NoEvent
    /\ parsing = NoEvent
    /\ response_text = <<>>
    /\ attempt_outcome = NoEvent
    /\ result = NoResult
    /\ response = NoResult
    /\ handlers = [pc    |-> [h \in Workers |-> "idle"],
                   frame |-> [h \in Workers |-> FreshFrame(NoEvent)],
                   log   |-> [h \in Workers |-> NoLog],
                   sent  |-> [h \in Workers |-> NoResult]]

\* worker h moves to `step` and leaves the globals as g; the response goes out
\* when the call is done
HandlerMoves(h, step, log, g) ==
    /\ medically_significant_terms' = g.ms
    /\ significant_disability_terms' = g.sd
    /\ congenital_anomaly_terms' = g.ca
    /\ handlers' = [handlers EXCEPT
                       !.pc[h] = step.pc,
                       !.frame[Frame(h)] = step.frame,
                       !.log[h] = log,
                       !.sent[h] = IF step.pc = "done" THEN step.frame.response
                                   ELSE NoResult]
    /\ UNCHANGED <<csv, server, resolveVars, dedupVars, pipeVars, parseVars>>

HandlerStart(h, req) ==
    /\ server = "serving"
    /\ handlers.pc[h] = "idle"
    /\ HandlerMoves(h, StartStep(req), [NoLog EXCEPT !.request = req], Globals)

HandlerDiagnosisAttempt(h, outcome) ==
    /\ handlers.pc[h] = "diagnosis"
    /\ LET g == GlobalsAfter(outcome, Globals)
       IN  HandlerMoves(h,
               DiagnosisStep(handlers.frame[Frame(h)], outcome, g.ms, g.sd, g.ca),
               [handlers.log[h] EXCEPT !.diag = Append(@, outcome)], g)

HandlerEventAttempt(h, outcome) ==
    /\ handlers.pc[h] = "events"
    /\ LET g == GlobalsAfter(outcome, Globals)
       IN  HandlerMoves(h,
               EventStep(handlers.frame[Frame(h)], outcome, g.ms, g.sd, g.ca),
               [handlers.log[h] EXCEPT !.events = Append(@, outcome)], g)

NextConcurrent ==
    \E h \in Workers :
        \/ \E req \in ConcurrentRequests : HandlerStart(h, req)
        \/ \E outcome \in ConcurrentDiagOutcomes : HandlerDiagnosisAttempt(h, outcome)
        \/ \E outcome \in ConcurrentEventOutcomes : HandlerEventAttempt(h, outcome)

SpecConcurrent == InitConcurrent /\ [][NextConcurrent]_vars

---------------------------------------------------------------------------
(* Vocabulary of the properties *)

\* the lowercased, trimmed term
Norm(term) == str_lower(str_strip(term))

\* sub occurs in s as a contiguous run of characters
Occurs(sub, s) == \E n \in 0..(Len(s) - Len(sub)) : SubSeq(s, n + 1, n + Len(sub)) = sub

TierMatches(term, tier) == \E entry \in tier : Occurs(entry, Norm(term))

MatchesSD(term) == TierMatches(term, significant_disability_terms)
MatchesCA(term) == TierMatches(term, congenital_anomaly_terms)
MatchesMS(term) == TierMatches(term, medically_significant_terms)
MatchesAnyTier(term) == MatchesSD(term) \/ MatchesCA(term) \/ MatchesMS(term)

CorpusTierNames == {SIGNIFICANT_DISABILITY, CONGENITAL_ANOMALY, MEDICALLY_SIGNIFICANT}

MatchedTierNames(term) ==
    (IF MatchesSD(term) THEN {SIGNIFICANT_DISABILITY} ELSE {})
        \cup (IF MatchesCA(term) THEN {CONGENITAL_ANOMALY} ELSE {})
        \cup (IF MatchesMS(term) THEN {MEDICALLY_SIGNIFICANT} ELSE {})

\* the oracle supplied a severity that is a string and no placeholder
OracleSeverityUsable(sev) ==
    /\ sev.t = "str"
    /\ str_strip(sev.s) # ""
    /\ sev.s # TO_BE_DETERMINED

\* keyword lists as the specification gives them (section 4.4)
SpecFatalKeywords == {"died", "passed away", "death", "deceased", "expired", "mortality"}
SpecLifeThreateningKeywords ==
    {"life-threatening", "ventilator", "emergency intervention", "critical condition",
     "near death", "almost died", "intensive care"}
SpecHospitalizationKeywords ==
    {"hospitalization", "hospital", "admitted", "admission", "emergency room", "er visit"}
SpecKeywords ==
    SpecFatalKeywords \cup SpecLifeThreateningKeywords \cup SpecHospitalizationKeywords

ContainsAny(term, keywords) == \E k \in keywords : Occurs(k, Norm(term))

Resolved == resolved.kind = "ok"

---------------------------------------------------------------------------
(* C1..C8 on SpecResolve *)

\* C1: every resolved event whose lowercased, trimmed term contains an entry of
\* the SignificantDisability corpus has severity SignificantDisability whatever
\* severity the oracle supplied, and whenever some corpus tier matches the term
\* the final severity is the name of a matching corpus tier.
C1_CorpusOverridesOracle ==
    Resolved =>
        /\ MatchesSD(event.Term) => resolved.severity = SIGNIFICANT_DISABILITY
        /\ MatchesAnyTier(event.Term) => resolved.severity \in MatchedTierNames(event.Term)

C1_Witness ==
    /\ Resolved
    /\ ~event.Is_Diagnosis
    /\ event.Severity = JStr(FATAL)
    /\ MatchesSD(event.Term)
    /\ resolved.severity = SIGNIFICANT_DISABILITY

\* C2: the corpus tiers are tested in the order SignificantDisability,
\* CongenitalAnomaly, MedicallySignificant and the first matching tier gives the
\* severity of the resolved event.
C2_TierOrder ==
    Resolved =>
        /\ MatchesSD(event.Term) => resolved.severity = SIGNIFICANT_DISABILITY
        /\ (~MatchesSD(event.Term) /\ MatchesCA(event.Term))
               => resolved.severity = CONGENITAL_ANOMALY
        /\ (~MatchesSD(event.Term) /\ ~MatchesCA(event.Term) /\ MatchesMS(event.Term))
               => resolved.severity = MEDICALLY_SIGNIFICANT

C2_Witness ==
    /\ Resolved
    /\ MatchesCA(event.Term)
    /\ MatchesMS(event.Term)
    /\ resolved.severity = CONGENITAL_ANOMALY

\* C6: a resolved non-diagnosis event whose term matches no corpus tier keeps
\* the oracle severity when that is a string and no placeholder (empty,
\* whitespace, "To be determined") and gets "None of the above" otherwise;
\* keywords in the term never escalate it.
C6_NonDiagnosisUsesOracleSeverity ==
    (Resolved /\ ~event.Is_Diagnosis /\ ~MatchesAnyTier(event.Term)) =>
        /\ resolved.severity =
               IF OracleSeverityUsable(event.Severity) THEN event.Severity.s
               ELSE NONE_OF_THE_ABOVE
        /\ ~OracleSeverityUsable(event.Severity) => resolved.seriousness = "Non-Serious"

C6_Witness ==
    /\ Resolved
    /\ ~event.Is_Diagnosis
    /\ event.Severity = JStr("")
    /\ ContainsAny(event.Term, SpecFatalKeywords)
    /\ ~MatchesAnyTier(event.Term)
    /\ resolved.severity = NONE_OF_THE_ABOVE
    /\ resolved.seriousness = "Non-Serious"

\* C7 (as claimed): a resolved diagnosis event whose term matches no corpus tier
\* and contains none of the keywords listed in section 4.4 has severity "None
\* of the above" and is Non-Serious.
C7_Original ==
    (Resolved /\ event.Is_Diagnosis /\ ~MatchesAnyTier(event.Term)
         /\ ~ContainsAny(event.Term, SpecKeywords)) =>
        /\ resolved.severity = NONE_OF_THE_ABOVE
        /\ resolved.seriousness = "Non-Serious"

\* C7 (amended): a resolved diagnosis event whose term matches no corpus tier
\* and contains none of the keywords listed in section 4.4, nor "fatal" nor
\* "demise", has severity "None of the above" and is Non-Serious.
C7_DiagnosisDefaultNone ==
    (Resolved /\ event.Is_Diagnosis /\ ~MatchesAnyTier(event.Term)
         /\ ~ContainsAny(event.Term, SpecKeywords \cup {"fatal", "demise"})) =>
        /\ resolved.severity = NONE_OF_THE_ABOVE
        /\ resolved.seriousness = "Non-Serious"

C7_Witness ==
    /\ Resolved
    /\ event.Is_Diagnosis
    /\ event.Term = "cardiac arrest"
    /\ resolved.severity = NONE_OF_THE_ABOVE
    /\ resolved.seriousness = "Non-Serious"

---------------------------------------------------------------------------
(* C9 on SpecResolveTwice *)

BothResolved ==
    /\ prev # NoEvent
    /\ prev.resolved.kind = "ok"
    /\ resolved.kind = "ok"
    /\ prev.event.Term = event.Term

\* C9 (as claimed): two resolutions of the same term against the same corpus
\* give the same severity.
C9_Original ==
    BothResolved => resolved.severity = prev.resolved.severity

\* C9 (amended): two resolutions of the same term against the same corpus give
\* the same severity and seriousness whenever the term matches a corpus tier or
\* both events are diagnosis-flagged.
C9_SameTermSameSeverity ==
    (BothResolved /\ (MatchesAnyTier(event.Term)
                          \/ (event.Is_Diagnosis /\ prev.event.Is_Diagnosis))) =>
        /\ resolved.severity = prev.resolved.severity
        /\ resolved.seriousness = prev.resolved.seriousness

C9_Witness ==
    /\ BothResolved
    /\ MatchesAnyTier(event.Term)
    /\ prev.event.Severity = JStr(FATAL)
    /\ event.Severity = JStr("")
    /\ event.Is_Diagnosis = prev.event.Is_Diagnosis
    /\ resolved.severity = prev.resolved.severity

---------------------------------------------------------------------------
(* C4 on SpecDedup *)

\* the term of a returned pair ("" when the pair has none)
PairTerm(x) == IF "Term" \in DOMAIN x.f THEN x.f.Term.s ELSE ""
PairSeverity(x) == IF "Severity" \in DOMAIN x.f THEN x.f.Severity ELSE JStr(NONE_OF_THE_ABOVE)
PairKey(x) == Norm(PairTerm(x))

\* the reply is a list of (term, severity) pairs
IsPairList(xs) ==
    \A i \in 1..Len(xs) :
        /\ xs[i].t = "obj"
        /\ "Term" \in DOMAIN xs[i].f => xs[i].f.Term.t = "str"

\* the lowercase+trimmed comparison keys of a reply, position by position
KeysOf(xs) == [i \in 1..Len(xs) |-> PairKey(xs[i])]

\* positions holding the first occurrence of a non-empty key
FirstOccurrences(keys) ==
    { i \in DOMAIN keys : keys[i] # "" /\ \A j \in 1..(i - 1) : keys[j] # keys[i] }

\* the members of a set of positions in increasing order
InOrder(F) ==
    [k \in 1..Cardinality(F) |->
        CHOOSE i \in F : Cardinality({ j \in F : j <= i }) = k]

MinOf(a, b) == IF a < b THEN a ELSE b

\* C4: for every reply list of (term, severity) pairs the deduplicated list is
\* the first min(5, u) first occurrences of non-empty lowercase+trimmed keys (u
\* of them), in reply order, each with the trimmed term as first written and
\* its severity; so its size is at most 5 and at most the reply's, no two terms
\* are equal ignoring case, and seven pairs with at least five distinct
\* non-empty keys give exactly five entries.
C4_Deduplicator ==
    (events # NoResult /\ IsPairList(adverse_events)) =>
        LET firsts == InOrder(FirstOccurrences(KeysOf(adverse_events)))
            u == Len(firsts)
            out == events.events
        IN  /\ events.kind = "ok"
            /\ Len(out) = MinOf(5, u)
            /\ \A k \in 1..Len(out) :
                   LET first == adverse_events[firsts[k]]
                   IN  /\ out[k].Term = str_strip(PairTerm(first))
                       /\ out[k].Severity = PairSeverity(first)
                       /\ out[k].Is_Diagnosis = FALSE
            /\ Len(out) <= 5
            /\ Len(out) <= Len(adverse_events)
            /\ \A k, l \in 1..Len(out) :
                   k # l => str_lower(out[k].Term) # str_lower(out[l].Term)
            /\ (Len(adverse_events) = 7 /\ u >= 5) => Len(out) = 5

C4_Witness ==
    /\ events # NoResult
    /\ IsPairList(adverse_events)
    /\ Len(adverse_events) = 7
    /\ Cardinality(FirstOccurrences(KeysOf(adverse_events))) = 7
    /\ PairTerm(adverse_events[5]) = "Vomiting"
    /\ events.kind = "ok"
    /\ Len(events.events) = 5
    /\ events.events[5].Term = "Vomiting"

---------------------------------------------------------------------------
(* C3, C5, C10 on Spec *)

TermFields ==
    << "Adverse_Event_Terms", "Adverse_Event_Terms2", "Adverse_Event_Terms3",
       "Adverse_Event_Terms4", "Adverse_Event_Terms5" >>
SeverityFields ==
    << "Side_Effect_Severity", "Side_Effect_Severity2", "Side_Effect_Severity3",
       "Side_Effect_Severity4", "Side_Effect_Severity5" >>
SeriousnessFields ==
    << "Side_Effect_Seriousness", "Side_Effect_Seriousness2", "Side_Effect_Seriousness3",
       "Side_Effect_Seriousness4", "Side_Effect_Seriousness5" >>

Succeeded == pc = "done" /\ response.status = 200

\* C3 (as claimed): in every record of a successful response seriousness is
\* "Non-Serious" exactly when the severity is "None of the above".
C3_NonSeriousIffNone ==
    Succeeded =>
        \A i \in 1..5 :
            SeverityFields[i] \in DOMAIN response.body =>
                (response.body[SeriousnessFields[i]] = "Non-Serious"
                     <=> response.body[SeverityFields[i]] = NONE_OF_THE_ABOVE)

\* C5: a request whose text is empty or only whitespace is answered with status
\* 400 at once: it never waits for an oracle and no diagnosis or event oracle
\* attempt is made for it.
C5_EmptyTextRejectedBeforeOracle ==
    (request # NoEvent /\ str_strip(request.text) = "") =>
        /\ pc = "done"
        /\ response.status = 400
        /\ diag_attempts = 0
        /\ event_attempts = 0

C5_Witness ==
    /\ request # NoEvent
    /\ request.is_json
    /\ request.text = "  "
    /\ pc = "done"
    /\ response.status = 400
    /\ diag_attempts + event_attempts = 0

\* C10: a successful response holds the first min(5, n) of the n events the
\* extraction returned, in order, under the field names without suffix and
\* with the suffixes 2..5, and no other field.
C10_AtMostFiveEvents ==
    Succeeded =>
        LET n == Len(result.events)
        IN  /\ DOMAIN response.body \subseteq
                   { TermFields[i] : i \in 1..5 } \cup { SeverityFields[i] : i \in 1..5 }
                       \cup { SeriousnessFields[i] : i \in 1..5 }
            /\ \A i \in 1..5 :
                   /\ TermFields[i] \in DOMAIN response.body <=> i <= n
                   /\ i <= n => response.body[TermFields[i]] = result.events[i].Term

C10_Witness ==
    /\ Succeeded
    /\ DiagnosisTest(diagnosed_condition) = "found"
    /\ Len(result.events) = 6
    /\ result.events[6].Term = "tremor"
    /\ "Adverse_Event_Terms5" \in DOMAIN response.body
    /\ response.body["Adverse_Event_Terms5"] = "pain"

---------------------------------------------------------------------------
(* C11 on Spec *)

\* the events of an extraction result whose trimmed term is not empty
SurvivingEvents(evs) == SelectSeq(evs, LAMBDA e : str_strip(e.Term) # "")

\* C11: the records of a successful response occupy exactly the positions 1..k,
\* k being the number of extracted events with a non-empty term (at most 5):
\* position 1 under the field names without suffix, positions 2..5 under the
\* names with the numeral; a field of position N is present only if the fields
\* of position N-1 are, every present position has its term, severity and
\* seriousness, and the term of position i is the i-th surviving term.
C11_PositionsAreAPrefix ==
    Succeeded =>
        LET body == response.body
            HasTerm(i) == TermFields[i] \in DOMAIN body
            HasAny(i) == \/ TermFields[i] \in DOMAIN body
                         \/ SeverityFields[i] \in DOMAIN body
                         \/ SeriousnessFields[i] \in DOMAIN body
            HasAll(i) == /\ TermFields[i] \in DOMAIN body
                         /\ SeverityFields[i] \in DOMAIN body
                         /\ SeriousnessFields[i] \in DOMAIN body
            surviving == SurvivingEvents(result.events)
            k == MinOf(5, Len(surviving))
        IN  /\ \A i \in 1..5 : HasTerm(i) <=> i <= k
            /\ \A i \in 1..5 : HasAny(i) => HasAll(i)
            /\ \A i \in 2..5 : HasAny(i) => HasAll(i - 1)
            /\ \A i \in 1..k : /\ body[TermFields[i]] = str_strip(surviving[i].Term)
                               /\ body[TermFields[i]] # ""

\* the reply held a blank term between two others; three records at 1..3
C11_Witness ==
    /\ Succeeded
    /\ response_text # <<>>
    /\ response_text[1].seg = "json"
    /\ Len(response_text[1].val.f.Adverse_Events.xs) = 5
    /\ PairTerm(response_text[1].val.f.Adverse_Events.xs[4]) = " "
    /\ DOMAIN response.body =
           { TermFields[i] : i \in 1..3 } \cup { SeverityFields[i] : i \in 1..3 }
               \cup { SeriousnessFields[i] : i \in 1..3 }
    /\ response.body["Adverse_Event_Terms3"] = "seizure"

---------------------------------------------------------------------------
(* C12 on Spec *)

\* the request went on to event extraction and an attempt returned a text
EventReplyReceived == pc = "done" /\ response_text # <<>>

\* the text parses to an object that has the key 'Adverse_Events'
HasExpectedStructure(text) ==
    LET parsed == safe_json_loads(text)
    IN  parsed.ok /\ parsed.val.t = "obj" /\ "Adverse_Events" \in DOMAIN parsed.val.f

\* C12: when the event reply cannot be parsed by any strategy, or parses to
\* something that is not an object with 'Adverse_Events', the request ends in
\* an error response (status 400 with the parser's or the validation's
\* message); a successful response without fields comes only from a parsed
\* reply: a diagnosis reply that gave a diagnosis string, or an event reply of
\* the expected structure.
C12_ExtractionFailureIsAnError ==
    /\ (EventReplyReceived /\ ~HasExpectedStructure(response_text)) =>
           /\ response.status = 400
           /\ response.body =
                  [error |-> IF safe_json_loads(response_text).ok
                             THEN "Invalid response format" ELSE CouldNotParse]
    /\ (Succeeded /\ DOMAIN response.body = {}) =>
           \/ DiagnosisTest(diagnosed_condition) = "found"
           \/ response_text # <<>> /\ HasExpectedStructure(response_text)

C12_Witness ==
    /\ EventReplyReceived
    /\ response_text = << ProseSeg >>
    /\ response.status = 400
    /\ response.body = [error |-> CouldNotParse]

---------------------------------------------------------------------------
(* C13 on Spec *)

\* the request passed validation and has been answered
Answered == pc = "done" /\ request # NoEvent /\ ValidateRequest(request) = ""

\* C13 (as claimed): no outcome of the diagnosis call fails the request: an
\* answered request either took its events from a diagnosis string, or went on
\* to event extraction (at least one event attempt was made), and an error
\* response is given only after event extraction was tried.
C13_DiagnosisNeverFailsRequest ==
    Answered =>
        /\ DiagnosisTest(diagnosed_condition) # "found" => event_attempts > 0
        /\ response.status # 200 => event_attempts > 0

---------------------------------------------------------------------------
(* C14 on LiveSpec *)

InOracleCall == pc \in {"diagnosis", "events"}

C14_RetryInvariant ==
    /\ diag_attempts \in 0..3
    /\ event_attempts \in 0..3
    /\ event_attempts > 0 => diag_attempts > 0
    /\ pc = "diagnosis" =>
           /\ diag_attempts < 3
           /\ event_attempts = 0
           /\ diag_attempts > 0 => ~AttemptHasText(attempt_outcome)
    /\ pc = "events" =>
           /\ event_attempts < 3
           /\ event_attempts > 0 => ~AttemptHasText(attempt_outcome)
    /\ (pc = "done" /\ event_attempts > 0 /\ ~AttemptHasText(attempt_outcome)) =>
           /\ event_attempts = 3
           /\ response = [status |-> 500, body |-> [error |-> "Internal server error"]]

\* C14: each oracle call makes at most 3 attempts and makes another one only
\* after an attempt without status 200 and a non-empty reply; when the three
\* event attempts all fail the response is an error (status 500), never a
\* success; and a request inside an oracle call always gets its response, after
\* at most 3 diagnosis attempts followed by at most 3 event attempts.
C14_BoundedRetries ==
    /\ []C14_RetryInvariant
    /\ (InOracleCall ~> pc = "done")

C14_Witness ==
    /\ pc = "done"
    /\ diag_attempts = 3
    /\ event_attempts = 3
    /\ attempt_outcome = TransportError
    /\ response.status = 500

---------------------------------------------------------------------------
(* C15 on Spec *)

Tiers == {"ms", "sd", "ca"}

TierSet(tier) ==
    CASE tier = "ms" -> medically_significant_terms
      [] tier = "sd" -> significant_disability_terms
      [] tier = "ca" -> congenital_anomaly_terms

TierName(tier) ==
    CASE tier = "ms" -> MEDICALLY_SIGNIFICANT
      [] tier = "sd" -> SIGNIFICANT_DISABILITY
      [] tier = "ca" -> CONGENITAL_ANOMALY

\* the entries of a source file, lowercased and trimmed
EntriesOf(file) == { Norm(file.rows[i]) : i \in 1..Len(file.rows) }

\* C15: when the source file of a tier is missing at startup and no other
\* source fails to be read, the process serves, the set of that tier is empty,
\* the set of every tier whose file is there holds that file's entries, and no
\* record gets the severity of the empty tier from the corpus: a record of the
\* diagnosis path never has it, a record of the event path has it only when the
\* oracle itself gave it.
C15_MissingSourceGivesEmptyTier ==
    \A tier \in Tiers :
        (csv[tier] = MissingFile /\ \A o \in Tiers : csv[o] # UnreadableFile) =>
            /\ server = "serving"
            /\ TierSet(tier) = {}
            /\ \A o \in Tiers : csv[o].kind = "ok" => TierSet(o) = EntriesOf(csv[o])
            /\ Succeeded =>
                   \A i \in 1..5 :
                       ( /\ SeverityFields[i] \in DOMAIN response.body
                         /\ response.body[SeverityFields[i]] = TierName(tier) ) =>
                           /\ ~result.events[i].Is_Diagnosis
                           /\ result.events[i].Severity = JStr(TierName(tier))

\* the SignificantDisability file is missing, the MedicallySignificant file is
\* there; the diagnosis "Paralysis of the hand" is answered without a tier
C15_Witness ==
    /\ csv.sd = MissingFile
    /\ csv.ms.kind = "ok"
    /\ significant_disability_terms = {}
    /\ medically_significant_terms = {"hepatitis", "seizure"}
    /\ Succeeded
    /\ diagnosed_condition = JStr(" Paralysis of the hand ")
    /\ response.body["Adverse_Event_Terms"] = "Paralysis of the hand"
    /\ response.body["Side_Effect_Severity"] = NONE_OF_THE_ABOVE

---------------------------------------------------------------------------
(* C16 on Spec *)

\* no source of the three could be loaded: each is missing or unreadable
AllSourcesFail == \A o \in Tiers : csv[o].kind # "ok"

\* C16 (as claimed): when none of the three corpus sources can be loaded the
\* process stops at startup and never takes up a request; no request is served
\* with three empty corpus sets.
C16_AllSourcesFailIsFatal ==
    /\ AllSourcesFail => (server = "crashed" /\ pc = "idle")
    /\ (\A o \in Tiers : TierSet(o) = {}) => pc = "idle"

---------------------------------------------------------------------------
(* C17 on Spec *)

\* the request failed on a reply of the event oracle
FailedOnOracleReply == EventReplyReceived /\ response.status # 200

\* the response the service gives for the event reply `text`
ResponseFor(text) ==
    Respond(ExtractEvents(text), medically_significant_terms,
            significant_disability_terms, congenital_anomaly_terms)

\* C17 (as claimed): the error response of a request that failed on an oracle
\* reply carries the raw text of that reply; so the text can be read off the
\* response, and no other reply text gives the same response.
C17_ErrorCarriesOracleText ==
    FailedOnOracleReply =>
        \A other \in EventReplies : ResponseFor(other) = response => other = response_text

---------------------------------------------------------------------------
(* C18 on SpecConcurrent *)

\* a call of analyze_text running alone: the steps of the call applied, one
\* after the other, to the outcomes its oracle attempts were handed
RECURSIVE AloneDiagnosis(_, _, _)
AloneDiagnosis(st, outcomes, i) ==
    IF i > Len(outcomes) \/ st.pc # "diagnosis" THEN st
    ELSE LET g == GlobalsAfter(outcomes[i], st.g)
             next == DiagnosisStep(st.frame, outcomes[i], g.ms, g.sd, g.ca)
         IN  AloneDiagnosis([pc |-> next.pc, frame |-> next.frame, g |-> g],
                            outcomes, i + 1)

RECURSIVE AloneEvents(_, _, _)
AloneEvents(st, outcomes, i) ==
    IF i > Len(outcomes) \/ st.pc # "events" THEN st
    ELSE LET g == GlobalsAfter(outcomes[i], st.g)
             next == EventStep(st.frame, outcomes[i], g.ms, g.sd, g.ca)
         IN  AloneEvents([pc |-> next.pc, frame |-> next.frame, g |-> g],
                         outcomes, i + 1)

\* the call with history `log` running alone in a process whose corpus sets
\* are g at its start
RunAlone(log, g) ==
    LET start == StartStep(log.request)
    IN  AloneEvents(AloneDiagnosis([pc |-> start.pc, frame |-> start.frame, g |-> g],
                                   log.diag, 1),
                    log.events, 1)

\* every finished call sent the response of the same call running alone
C18_SameAsAlone ==
    LET loaded == load_ae_terms_from_csv(csv)
    IN  \A h \in Workers :
            handlers.pc[h] = "done" =>
                LET alone == RunAlone(handlers.log[h],
                                      [ms |-> loaded.ms, sd |-> loaded.sd, ca |-> loaded.ca])
                IN  /\ alone.pc = "done"
                    /\ handlers.sent[h] = alone.frame.response

\* a step leaves the corpus sets as they are, and the local variables of
\* every worker whose position it does not move
C18_StepTouchesOwnFrameOnly ==
    /\ UNCHANGED <<medically_significant_terms, significant_disability_terms,
                   congenital_anomaly_terms>>
    /\ \A h \in Workers :
           (handlers.pc[h]' = handlers.pc[h] /\ handlers.log[h]' = handlers.log[h]) =>
               handlers.frame[h]' = handlers.frame[h]

\* C18 (as claimed): after startup no step of a request changes the corpus
\* sets or the local variables of another request, and for every interleaving
\* of two requests each response is the response the request gets running
\* alone on the same text and the same oracle outcomes.
C18_RequestsAreIsolated ==
    /\ [][C18_StepTouchesOwnFrameOnly]_vars
    /\ []C18_SameAsAlone

---------------------------------------------------------------------------
(* C19, C20 on SpecResolve *)

\* the keyword lists of determine_adr_severity_for_diagnosed, as the term is
\* compared with them: lowercased
EscalationKeywords ==
    SpecKeywords \cup {"fatal", "demise"}

\* the first corpus tier, in the order SignificantDisability,
\* CongenitalAnomaly, MedicallySignificant, that matches the term
FirstMatchingTier(term) ==
    IF MatchesSD(term) THEN SIGNIFICANT_DISABILITY
    ELSE IF MatchesCA(term) THEN CONGENITAL_ANOMALY
    ELSE MEDICALLY_SIGNIFICANT

\* C19: a resolved diagnosis event whose term contains an entry of some corpus
\* tier and also a Fatal, LifeThreatening or Hospitalization keyword has the
\* severity of the first matching corpus tier, not the severity of the
\* keyword, and is Serious.
C19_CorpusBeforeKeywords ==
    (Resolved /\ event.Is_Diagnosis /\ MatchesAnyTier(event.Term)
         /\ ContainsAny(event.Term, EscalationKeywords)) =>
        /\ resolved.severity = FirstMatchingTier(event.Term)
        /\ resolved.severity \notin {FATAL, LIFE_THREATENING, HOSPITALIZATION}
        /\ resolved.seriousness = "Serious"

C19_Witness ==
    /\ Resolved
    /\ event.Is_Diagnosis
    /\ event.Term = "fatal hepatitis"
    /\ "hepatitis" \in medically_significant_terms
    /\ ContainsAny(event.Term, SpecFatalKeywords \cup {"fatal"})
    /\ resolved.severity = MEDICALLY_SIGNIFICANT

\* C20: for a resolved diagnosis event whose term matches no corpus tier the
\* keyword lists decide in the order Fatal, LifeThreatening, Hospitalization:
\* a term with a Fatal keyword is Fatal whatever else it contains, a term with
\* a LifeThreatening keyword and no Fatal one is LifeThreatening, and a term
\* with one of the keywords hospitalization, hospital, admitted, admission,
\* emergency room and none of the first two lists is Hospitalization; so
\* Fatal with Hospitalization gives Fatal, and LifeThreatening with
\* Hospitalization gives LifeThreatening.
C20_KeywordOrder ==
    (Resolved /\ event.Is_Diagnosis /\ ~MatchesAnyTier(event.Term)) =>
        LET fatal == ContainsAny(event.Term, SpecFatalKeywords \cup {"fatal", "demise"})
            life == ContainsAny(event.Term, SpecLifeThreateningKeywords)
            hosp == ContainsAny(event.Term, SpecHospitalizationKeywords \ {"er visit"})
        IN  /\ fatal => resolved.severity = FATAL
            /\ (~fatal /\ life) => resolved.severity = LIFE_THREATENING
            /\ (~fatal /\ ~life /\ hosp) => resolved.severity = HOSPITALIZATION

\* "died in hospital": a Fatal and a Hospitalization keyword
C20_Witness ==
    /\ Resolved
    /\ event.Is_Diagnosis
    /\ ~MatchesAnyTier(event.Term)
    /\ ContainsAny(event.Term, SpecFatalKeywords)
    /\ ContainsAny(event.Term, SpecHospitalizationKeywords)
    /\ resolved.severity = FATAL

---------------------------------------------------------------------------
(* C21 on SpecResolve *)

\* C21 (as claimed): a resolved diagnosis event whose term matches no corpus
\* tier, contains no Fatal and no LifeThreatening keyword and contains, in any
\* letter case, one of the Hospitalization keywords hospitalization, hospital,
\* admitted, admission, emergency room, er visit has severity
\* Hospitalization; so has the term "ER visit".
C21_HospitalizationKeywords ==
    (Resolved /\ event.Is_Diagnosis /\ ~MatchesAnyTier(event.Term)
         /\ ~ContainsAny(event.Term, SpecFatalKeywords \cup {"fatal", "demise"})
         /\ ~ContainsAny(event.Term, SpecLifeThreateningKeywords)
         /\ ContainsAny(event.Term, SpecHospitalizationKeywords)) =>
        resolved.severity = HOSPITALIZATION

---------------------------------------------------------------------------
(* C22 on Spec *)

\* the diagnosis call of the request has returned
DiagnosisCallFinished == diagnosed_condition # NoEvent

\* C22: within a request the diagnosis call comes first and event extraction
\* is tried only after it returned nothing: while the diagnosis call runs no
\* event attempt has been made, an event attempt is made only in a request
\* whose diagnosis call has finished without a diagnosis, and a request that
\* obtained a non-empty diagnosis never makes one.
C22_Invariant ==
    /\ pc = "diagnosis" => (~DiagnosisCallFinished /\ event_attempts = 0)
    /\ pc = "events" => DiagnosisCallFinished
    /\ event_attempts > 0 =>
           /\ DiagnosisCallFinished
           /\ diag_attempts > 0
           /\ DiagnosisTest(diagnosed_condition) = "none"
    /\ (DiagnosisCallFinished /\ DiagnosisTest(diagnosed_condition) # "none") =>
           (pc = "done" /\ event_attempts = 0)

C22_DiagnosisFirst ==
    /\ []C22_Invariant
    /\ [][event_attempts' > event_attempts =>
              (pc = "events" /\ DiagnosisCallFinished
                   /\ DiagnosisTest(diagnosed_condition) = "none")]_vars

C22_Witness ==
    /\ pc = "done"
    /\ diag_attempts = 2
    /\ diagnosed_condition = JStr(" ")
    /\ event_attempts = 1
    /\ response.status = 200

---------------------------------------------------------------------------
(* C23 on Spec *)

\* the fragments of a diagnosis string that are not empty after trimming
NonEmptyFragments(s) == SelectSeq(str_split(s, ","), LAMBDA c : str_strip(c) # "")

\* the returned diagnosis gives no candidate event: no string, or a string
\* that is empty, whitespace, or without a non-empty fragment
NoCandidateFromDiagnosis(dc) ==
    \/ ~Truthy(dc)
    \/ IsStr(dc) /\ NonEmptyFragments(dc.s) = << >>

\* C23 (as claimed): when the diagnosis gives no candidate event the request
\* goes on to event extraction: it is not answered before an event attempt
\* was made, and no successful response without fields is sent without one.
C23_NoCandidateFallsBack ==
    /\ (Answered /\ NoCandidateFromDiagnosis(diagnosed_condition)) => event_attempts > 0
    /\ (Succeeded /\ DOMAIN response.body = {}) => event_attempts > 0

---------------------------------------------------------------------------
(* C24 on Spec *)

\* the request took its events from the diagnosis string
DiagnosisPath ==
    /\ Answered
    /\ DiagnosisTest(diagnosed_condition) = "found"

\* C24: the events of a request answered from a non-empty diagnosis string are
\* exactly the fragments of the string between commas that are not empty after
\* trimming, trimmed and in their order, each one diagnosis-flagged and with
\* the placeholder severity; "drug-induced hepatitis, acute kidney injury"
\* gives two of them and a string without comma gives one.
C24_DiagnosisSplit ==
    DiagnosisPath =>
        LET s == diagnosed_condition.s
            fragments == NonEmptyFragments(s)
            out == result.events
        IN  /\ result.kind = "ok"
            /\ Len(out) = Len(fragments)
            /\ \A i \in 1..Len(out) :
                   /\ out[i].Term = str_strip(fragments[i])
                   /\ out[i].Term # ""
                   /\ ~Occurs(",", out[i].Term)
                   /\ out[i].Is_Diagnosis = TRUE
                   /\ out[i].Severity = JStr(TO_BE_DETERMINED)
            /\ ~Occurs(",", s) => (Len(out) = 1 /\ out[1].Term = str_strip(s))
            /\ s = "drug-induced hepatitis, acute kidney injury" =>
                   /\ Len(out) = 2
                   /\ out[1].Term = "drug-induced hepatitis"
                   /\ out[2].Term = "acute kidney injury"

\* the diagnosis "rash, fever, cough,, itch, pain, tremor": six events
C24_Witness ==
    /\ DiagnosisPath
    /\ Occurs(",,", diagnosed_condition.s)
    /\ Len(result.events) = 6
    /\ result.events[4].Term = "itch"
    /\ result.events[4].Is_Diagnosis

---------------------------------------------------------------------------
(* C25 on SpecParse *)

\* what a parse of Python literal syntax gives for t: the value of a text
\* that is one literal, a failure for any other text
LiteralParse(t) ==
    IF Len(t) = 1 /\ t[1].seg = "pylit" THEN ParseOk(t[1].val)
    ELSE IF Len(t) = 1 /\ t[1].seg = "json" /\ ~ContainsNull(t[1].val)
    THEN ParseOk(t[1].val)
    ELSE ParseFail

LayeredStrategies(t) ==
    << strategy_json_loads(t), strategy_regex(t), LiteralParse(t) >>

\* the call of safe_json_loads under way tried the strategies of the list
\* `layers` in order, stopped at the first success and raised after the last
TriedInOrder(layers) ==
    parsing # NoEvent =>
        LET s == layers
            k == parsing.tried
        IN  /\ k \in 0..3
            /\ \A j \in 1..(k - 1) : ~s[j].ok
            /\ parsing.returned = NoResult => \A j \in 1..k : ~s[j].ok
            /\ (parsing.returned # NoResult /\ parsing.returned # ParseFail) =>
                   k >= 1 /\ s[k].ok /\ parsing.returned = s[k]
            /\ parsing.returned = ParseFail => k = 3 /\ \A j \in 1..3 : ~s[j].ok

\* C25: a reply is parsed by the strict JSON parse, then by the strict parse
\* of the span from the first '{' to the last '}', then by a permissive
\* literal parse, in this order; the value of the first strategy that
\* succeeds is returned and no later strategy is tried, and the parse error
\* is raised only when all three have failed.
C25_LayeredParse == TriedInOrder(LayeredStrategies(parsing.text))

---------------------------------------------------------------------------
(* C26 on Spec *)

\* C26: resolution and assembly leave the terms and their order alone: the
\* term fields of a successful response are those of the first five events
\* the extractor returned, position by position, each with the very string
\* of the event (content and casing), whatever the severities are.
C26_TermsAndOrderKept ==
    Succeeded =>
        LET k == MinOf(5, Len(result.events))
        IN  /\ \A i \in 1..5 : TermFields[i] \in DOMAIN response.body <=> i <= k
            /\ \A i \in 1..k : response.body[TermFields[i]] = result.events[i].Term

\* five events went through, a non-serious one first and the capitalised
\* term of a fatal one last
C26_Witness ==
    /\ Succeeded
    /\ Len(result.events) = 5
    /\ response.body["Side_Effect_Seriousness"] = "Non-Serious"
    /\ response.body["Adverse_Event_Terms5"] = "Vomiting"
    /\ response.body["Side_Effect_Severity5"] = FATAL

---------------------------------------------------------------------------
(* C27 on Spec *)

\* C27 (as claimed): no two term fields of a successful response are equal
\* up to case, whether the events came from the diagnosis or from the event
\* extraction.
C27_NoDuplicateTerms ==
    Succeeded =>
        \A i, j \in 1..5 :
            (/\ i # j
             /\ TermFields[i] \in DOMAIN response.body
             /\ TermFields[j] \in DOMAIN response.body)
                => str_lower(response.body[TermFields[i]])
                       # str_lower(response.body[TermFields[j]])

---------------------------------------------------------------------------
(* C28 on SpecResolve *)

\* the ordered rule table, first match wins: the three corpus tiers, then for
\* a diagnosis event the keyword lists of the routine (as they match a
\* lowercased term), then for another event the oracle severity that is no
\* placeholder, then "None of the above"
RuleTable(ev) ==
    IF MatchesSD(ev.Term) THEN SIGNIFICANT_DISABILITY
    ELSE IF MatchesCA(ev.Term) THEN CONGENITAL_ANOMALY
    ELSE IF MatchesMS(ev.Term) THEN MEDICALLY_SIGNIFICANT
    ELSE IF ev.Is_Diagnosis /\ ContainsAny(ev.Term, SpecFatalKeywords \cup {"fatal", "demise"})
    THEN FATAL
    ELSE IF ev.Is_Diagnosis /\ ContainsAny(ev.Term, SpecLifeThreateningKeywords)
    THEN LIFE_THREATENING
    ELSE IF ev.Is_Diagnosis /\ ContainsAny(ev.Term, SpecHospitalizationKeywords \ {"er visit"})
    THEN HOSPITALIZATION
    ELSE IF ~ev.Is_Diagnosis /\ OracleSeverityUsable(ev.Severity)
    THEN ev.Severity.s
    ELSE NONE_OF_THE_ABOVE

\* the final severity when the keyword routine is given empty corpus sets
WithoutCorpusRulesInRoutine(ev) ==
    LET csv_severity == check_csv_severity(str_strip(ev.Term), medically_significant_terms,
                                           significant_disability_terms,
                                           congenital_anomaly_terms)
    IN  IF csv_severity # NoMatch THEN csv_severity
        ELSE determine_adr_severity_for_diagnosed(str_strip(ev.Term), {}, {}, {})

\* C28: the severity of every resolved event is the one the ordered rule
\* table gives for it, and for a diagnosis event it is the same as when the
\* corpus rules are taken out of the keyword routine.
C28_OneRuleTable ==
    Resolved =>
        /\ resolved.severity = RuleTable(event)
        /\ event.Is_Diagnosis => resolved.severity = WithoutCorpusRulesInRoutine(event)

\* a diagnosis event matched by a corpus tier and by a keyword list: the
\* corpus rule of the routine is reached by neither computation
C28_Witness ==
    /\ Resolved
    /\ event.Is_Diagnosis
    /\ MatchesMS(event.Term)
    /\ ~MatchesSD(event.Term)
    /\ ContainsAny(event.Term, SpecLifeThreateningKeywords)
    /\ resolved.severity = MEDICALLY_SIGNIFICANT

---------------------------------------------------------------------------
(* C29 on Spec *)

\* the attempt came back with status 200 and a non-empty reply
RepliedWithText(outcome) ==
    outcome.kind = "http" /\ outcome.status = 200 /\ outcome.response # <<>>

\* the diagnosis call has returned the Diagnosed_Condition of the parsed
\* reply, or the empty diagnosis for a reply that cannot be parsed
ReturnedFor(text, returned) ==
    LET parsed == safe_json_loads(text)
    IN  /\ ~parsed.ok => returned = JStr("")
        /\ (/\ parsed.ok
            /\ parsed.val.t = "obj"
            /\ "Diagnosed_Condition" \in DOMAIN parsed.val.f)
               => returned = parsed.val.f["Diagnosed_Condition"]

\* C29: every attempt of the diagnosis call is made while the call runs, is
\* one of at most 3, and follows only attempts without text; an attempt that
\* gets status 200 and a non-empty reply ends the call in the same step, with
\* the parsed Diagnosed_Condition or, for an unparsable reply, the empty
\* diagnosis; an attempt without text leaves the call running unless it was
\* the third, which ends it with the empty diagnosis.
C29_DiagnosisCallEnds ==
    [][diag_attempts' = diag_attempts + 1 =>
          /\ pc = "diagnosis"
          /\ diag_attempts < 3
          /\ diag_attempts > 0 => ~RepliedWithText(attempt_outcome)
          /\ RepliedWithText(attempt_outcome') =>
                 /\ pc' # "diagnosis"
                 /\ DiagnosisCallFinished'
                 /\ ReturnedFor(attempt_outcome'.response, diagnosed_condition')
          /\ (~RepliedWithText(attempt_outcome') /\ diag_attempts' < 3) =>
                 (pc' = "diagnosis" /\ ~DiagnosisCallFinished')
          /\ (~RepliedWithText(attempt_outcome') /\ diag_attempts' = 3) =>
                 (pc' # "diagnosis" /\ diagnosed_condition' = JStr(""))]_vars

\* the second attempt got prose: the call ended there with the empty
\* diagnosis and the request went on to the event extraction
C29_Witness ==
    /\ pc = "events"
    /\ diag_attempts = 2
    /\ event_attempts = 0
    /\ attempt_outcome = HttpReply(200, << ProseSeg >>)
    /\ diagnosed_condition = JStr("")

---------------------------------------------------------------------------
(* C30 on Spec *)

\* the event-extraction call used up its attempts without a reply text
EventRetriesExhausted ==
    /\ pc = "done"
    /\ event_attempts = 3
    /\ ~RepliedWithText(attempt_outcome)

\* the request was rejected, or the extraction or the assembly raised
RequestFailed ==
    /\ pc = "done"
    /\ \/ ValidateRequest(request) # ""
       \/ result.kind = "raise"
       \/ /\ result.kind = "ok"
          /\ AssembleResponse(result.events, medically_significant_terms,
                              significant_disability_terms,
                              congenital_anomaly_terms).kind = "raise"

\* C30: the status tells the failure classes apart: a request that is not
\* JSON or whose text is empty, an event reply that no strategy parses and a
\* parsed event reply without 'Adverse_Events' are answered 400, the
\* exhaustion of the event-extraction attempts is answered 500, and no failed
\* request is answered 200.
C30_StatusByFailureClass ==
    pc = "done" =>
        /\ (~request.is_json \/ request.text = "") => response.status = 400
        /\ (EventReplyReceived /\ ~safe_json_loads(response_text).ok)
               => response.status = 400
        /\ (EventReplyReceived /\ safe_json_loads(response_text).ok
                /\ ~HasExpectedStructure(response_text))
               => response.status = 400
        /\ EventRetriesExhausted => response.status = 500
        /\ RequestFailed => response.status \in {400, 500}
        /\ response.status = 200 => ~RequestFailed

\* three event attempts without a reply, answered 500
C30_Witness ==
    /\ EventRetriesExhausted
    /\ attempt_outcome = HttpReply(200, <<>>)
    /\ response.status = 500
    /\ response.body = [error |-> "Internal server error"]

====
